---------------------------- MODULE Spec2Model ----------------------------
(***************************************************************************)
(* A model of the breaking-bricks game: the Tokens and score counters, the *)
(* Brick, Paddle and Ball game elements, and the frame loop of main.py.    *)
(*                                                                         *)
(* Numbers.  Positions are whole pixels (a pygame.Rect holds integers).    *)
(* Velocities are floats in pixels per millisecond in the source; here a   *)
(* velocity component is an integer number of thousandths of a pixel per   *)
(* millisecond, so 0.25 ppm is 250, and a product or quotient is rounded   *)
(* to the nearest thousandth.  Times are whole milliseconds.  A float zero *)
(* is taken as positive zero.                                              *)
(***************************************************************************)
EXTENDS Integers, Sequences, FiniteSets, TLC

VARIABLES
    num_tokens,       \* Tokens.num_tokens
    _score,           \* score._score
    was_hit,          \* Brick.was_hit of every Brick instance
    paddle,           \* the Paddle's rectangle: x and y of its top left corner
    default_velocity, \* the Vector2 that is GameElement.__init__'s default
                      \* velocity argument; the Paddle's velocity is this object
    ball,             \* the Ball's rectangle: x and y of its top left corner
    velocity,         \* Ball.velocity
    has_been_served,  \* Ball._has_been_served
    hits,             \* how many times Ball.collided_with has run
    _starting,        \* Ball._starting_x and Ball._starting_y
    bat_rect,         \* main.py: bat_rect.x (its y does not change)
    ball_rect,        \* main.py: x and y of ball_rect
    ball_served,      \* main.py: ball_served
    current_ball_speed_ppm, \* main.py: current_ball_speed_ppm
    brick_locations,  \* main.py: brick_locations
    game_over,        \* main.py: game_over
    bat_hits,         \* main.py: how many times the bat has hit the ball
    last              \* the call that produced this state, with its arguments

vars == <<num_tokens, _score, was_hit, paddle, default_velocity,
          ball, velocity, has_been_served, hits, _starting,
          bat_rect, ball_rect, ball_served, current_ball_speed_ppm,
          brick_locations, game_over, bat_hits, last>>

counterVars == <<num_tokens, _score, was_hit>>

paddleVars == <<paddle, default_velocity>>

ballVars == <<ball, velocity, has_been_served, hits, _starting>>

mainVars == <<bat_rect, ball_rect, ball_served, current_ball_speed_ppm,
              brick_locations, game_over, bat_hits>>

(***************************************************************************)
(* Arithmetic                                                              *)
(***************************************************************************)
Max(a, b) == IF a >= b THEN a ELSE b

Min(a, b) == IF a <= b THEN a ELSE b

Abs(a) == IF a < 0 THEN -a ELSE a

\* One pixel per millisecond in the unit of velocity, a thousandth of it.
PPM == 10 * 100

\* a / b with the fraction dropped, towards zero, as int() and the integer
\* fields of a pygame.Rect do (b > 0).
TruncDiv(a, b) == IF a >= 0 THEN a \div b ELSE -((-a) \div b)

\* a / b rounded to the nearest integer, halves away from zero (b > 0).
RoundDiv(a, b) ==
    IF a >= 0 THEN (2 * a + b) \div (2 * b) ELSE -((2 * (-a) + b) \div (2 * b))

\* floor(k * c / 10^6) for k >= 0 and 0 <= c < 200000, without a product
\* above 2^31: k is split as ki * 10^6 + kh * 10^3 + kl.
MulDivMillion(k, c) ==
    LET ki == k \div 1000000
        kh == (k % 1000000) \div 1000
        kl == k % 1000
    IN  c * ki + ((c * kh + ((c * kl) \div 1000)) \div 1000)

\* math.copysign(1, v)
CopySign1(v) == IF v < 0 THEN -1 ELSE 1

Zero2 == [x |-> 0, y |-> 0]

Vec(x, y) == [x |-> x, y |-> y]

(***************************************************************************)
(* Rectangles (pygame.Rect)                                                *)
(***************************************************************************)
Rect(x, y, w, h) == [x |-> x, y |-> y, w |-> w, h |-> h]

NoRect == Rect(0, 0, 0, 0)

Left(r) == r.x

Top(r) == r.y

Right(r) == r.x + r.w

Bottom(r) == r.y + r.h

\* Rect.colliderect: the two rectangles overlap.
CollideRect(a, b) ==
    /\ a.x < b.x + b.w
    /\ a.y < b.y + b.h
    /\ a.x + a.w > b.x
    /\ a.y + a.h > b.y

\* a.contains(b): b lies inside a.
Contains(a, b) ==
    /\ a.x <= b.x
    /\ a.y <= b.y
    /\ a.x + a.w >= b.x + b.w
    /\ a.y + a.h >= b.y + b.h
    /\ a.x + a.w > b.x
    /\ a.y + a.h > b.y

(***************************************************************************)
(* The call record of a state: the operation that produced it and what it  *)
(* was given.  n is a count or the frame time dt, base a base value, an    *)
(* axis value or a serve angle, vel a velocity argument, obj a brick or a  *)
(* flag, rect a rectangle argument, raised whether the call raised.        *)
(***************************************************************************)
Call(op, n, base, vel, obj, rect, raised) ==
    [op |-> op, n |-> n, base |-> base, vel |-> vel, obj |-> obj,
     rect |-> rect, raised |-> raised]

NoCall == Call("init", 0, 0, Zero2, 0, NoRect, FALSE)

(***************************************************************************)
(* Bounds of the model                                                     *)
(***************************************************************************)
MaxTokens == 24

MaxTokenArg == 3

MaxScore == 600

NumBricks == 1

\* Velocity components the callers of the score functions pass.
VelocityComponents == {-250, 0, 125}

Velocities == [x : VelocityComponents, y : VelocityComponents]

\* Base values of scoring events: 1, 5 and 10 are the documented ones.
BaseValues == {-1, 0, 1, 10}

BrickIds == 1..NumBricks

\* The size of the screen handed to update(), and of the images.
ScreenW == 24

ScreenH == 20

PaddleW == 6

PaddleH == 3

BallW == 3

BallH == 3

BrickW == 10

BrickH == 2

\* The positions given to the constructors.
PaddleY == 16

BallStartX == 10

BallStartY == 8

\* How far off the screen a constructor's x may put the paddle.
MaxStartOffScreen == 8

\* The paddle axis takes the values k / AxisSteps.
AxisSteps == 2

\* The longest frame, in milliseconds.
MaxDt == 30

\* The frame times dt handed to Ball.update, in milliseconds.
ShortDt == 1
FrameTimes == {17, MaxDt}

\* clock.tick(fps) of main.py: a frame at 55 frames a second.
MainFrameTimes == {18}

\* The serve draws one angle in every AngleStep degrees.
AngleStep == 15

\* The paddle is handed to Ball.collided_with at one position in PaddleStep.
PaddleStep == 3

\* Where the bricks are: BrickGap between them, their top at BrickY.
BrickGap == 4

BrickY == 3

\* main.py: the bat's top is BatOffset above the bottom of the screen.
BatOffset == 4

\* main.py: the rows of bricks.
BrickRows == 1

\* main.py: random.uniform takes the values k / UniformSteps.
UniformSteps == 1

\* Ball.collided_with runs at most this many times (every run speeds the
\* ball up).
MaxHits == 2

\* screen.get_rect(): the Surface's rectangle, its top left corner at (0, 0).
screen_rect == Rect(0, 0, ScreenW, ScreenH)

(***************************************************************************)
(* Tokens (Tokens.py)                                                      *)
(***************************************************************************)
STARTING_NUM_TOKENS == 3

\* Tokens.add: cls.num_tokens += tokens_to_add
TokensAddResult(tokens, tokens_to_add) == tokens + tokens_to_add

\* Tokens.lose without its floor of zero.
TokensLoseUnclamped(tokens, tokens_to_remove) == tokens - tokens_to_remove

\* Tokens.lose: cls.num_tokens = max(0, cls.num_tokens - tokens_to_remove)
TokensLoseResult(tokens, tokens_to_remove) == Max(0, tokens - tokens_to_remove)

TokensAdd(n) ==
    /\ TokensAddResult(num_tokens, n) <= MaxTokens
    /\ num_tokens' = TokensAddResult(num_tokens, n)
    /\ last' = Call("Tokens.add", n, 0, Zero2, 0, NoRect, FALSE)
    /\ UNCHANGED <<_score, was_hit, paddleVars, ballVars, mainVars>>

TokensLose(n) ==
    /\ num_tokens' = TokensLoseResult(num_tokens, n)
    /\ last' = Call("Tokens.lose", n, 0, Zero2, 0, NoRect, FALSE)
    /\ UNCHANGED <<_score, was_hit, paddleVars, ballVars, mainVars>>

(***************************************************************************)
(* score (score.py)                                                        *)
(***************************************************************************)
\* _SPEED_FACTOR = math.sqrt(1000) = 31.6227766..., here the convergent
\* 8886/281 = 31.6227758 of its continued fraction.
SPEED_FACTOR_NUM == 8886

SPEED_FACTOR_DEN == 281

SCREEN_CLEARED_BASE_VALUE == 1000

\* Vector2.magnitude_squared(), in millionths of (pixel per millisecond)^2.
MagnitudeSquared(v) == v.x * v.x + v.y * v.y

\* int(_SPEED_FACTOR * magnitude_squared * base_value): int() drops the
\* fraction, towards zero.  A product that is not positive truncates to a
\* value <= 0, pictured here as 0.
ScaledSpeedTruncated(base_value, ball_velocity) ==
    LET k == MagnitudeSquared(ball_velocity) * base_value
    IN  IF k <= 0 THEN 0 ELSE MulDivMillion(k, SPEED_FACTOR_NUM) \div SPEED_FACTOR_DEN

\* The same product rounded to the nearest integer: floor(x + 1/2).
ScaledSpeedRounded(base_value, ball_velocity) ==
    LET k == MagnitudeSquared(ball_velocity) * base_value
    IN  IF k <= 0 THEN 0
        ELSE (MulDivMillion(k, 2 * SPEED_FACTOR_NUM) + SPEED_FACTOR_DEN)
                 \div (2 * SPEED_FACTOR_DEN)

\* _update without the floor of one point.
ScoreUpdateNoFloor(base_value, ball_velocity) ==
    ScaledSpeedTruncated(base_value, ball_velocity)

\* _update rounding where the code truncates.
ScoreUpdateRounding(base_value, ball_velocity) ==
    Max(1, ScaledSpeedRounded(base_value, ball_velocity))

\* _update: _score += max(1, int(_SPEED_FACTOR * magnitude_squared * base_value));
\* this is the amount added.
ScoreUpdate(base_value, ball_velocity) ==
    Max(1, ScaledSpeedTruncated(base_value, ball_velocity))

\* brick_destroyed(base_brick_value, ball_velocity)
brick_destroyed(base_brick_value, ball_velocity) ==
    /\ _score + ScoreUpdate(base_brick_value, ball_velocity) <= MaxScore
    /\ _score' = _score + ScoreUpdate(base_brick_value, ball_velocity)

\* screen_cleared(ball_velocity)
screen_cleared(ball_velocity) ==
    /\ _score + ScoreUpdate(SCREEN_CLEARED_BASE_VALUE, ball_velocity) <= MaxScore
    /\ _score' = _score + ScoreUpdate(SCREEN_CLEARED_BASE_VALUE, ball_velocity)

BrickDestroyed(base, v) ==
    /\ brick_destroyed(base, v)
    /\ last' = Call("brick_destroyed", 0, base, v, 0, NoRect, FALSE)
    /\ UNCHANGED <<num_tokens, was_hit, paddleVars, ballVars, mainVars>>

ScreenCleared(v) ==
    /\ screen_cleared(v)
    /\ last' = Call("screen_cleared", 0, SCREEN_CLEARED_BASE_VALUE, v, 0, NoRect, FALSE)
    /\ UNCHANGED <<num_tokens, was_hit, paddleVars, ballVars, mainVars>>

(***************************************************************************)
(* Brick (Brick.py)                                                        *)
(***************************************************************************)
BRICK_BASE_VALUE == 1

\* Brick.collided_with(other_element): the flag is set and the score is
\* raised, whatever the flag was before.
BrickCollidedWith(b, other_velocity) ==
    /\ was_hit' = [was_hit EXCEPT ![b] = TRUE]
    /\ brick_destroyed(BRICK_BASE_VALUE, other_velocity)
    /\ last' = Call("Brick.collided_with", 0, BRICK_BASE_VALUE, other_velocity, b,
                    NoRect, FALSE)
    /\ UNCHANGED <<num_tokens, paddleVars, ballVars, mainVars>>

(***************************************************************************)
(* Paddle (Paddle.py)                                                      *)
(***************************************************************************)
MAX_PADDLE_SPEED_PPM == 550

\* ControllerInput.paddle(): a value in [-1, 1], here a multiple of 1/AxisSteps.
AxisValues == (-AxisSteps)..AxisSteps

\* The velocity Paddle.update derives from an axis value.
PaddleVelocityX(axis) == RoundDiv(axis * MAX_PADDLE_SPEED_PPM, AxisSteps)

PaddleRect == Rect(paddle.x, paddle.y, PaddleW, PaddleH)

\* The clamp of Paddle.update with the right-hand limit left out.
PaddleClampLeftOnly(x) == Max(x, Left(screen_rect))

\* self.left = max(self.left, screen_rect.left)
\* self.right = min(self.right, screen_rect.right)
\* Setting right moves the rectangle: x becomes right - width.
PaddleClamp(x) ==
    LET l == Max(x, Left(screen_rect))
    IN  Min(l + PaddleW, Right(screen_rect)) - PaddleW

\* Paddle.update(dt, screen): the velocity object is written in place, then
\* self.x += self.velocity.x * dt, the float sum stored into the integer x.
PaddleUpdate(axis, dt) ==
    LET vx == PaddleVelocityX(axis)
        x1 == TruncDiv(paddle.x * PPM + vx * dt, PPM)
    IN  /\ default_velocity' = [default_velocity EXCEPT !.x = vx]
        /\ paddle' = [paddle EXCEPT !.x = PaddleClamp(x1)]
        /\ last' = Call("Paddle.update", dt, axis, default_velocity', 0, NoRect, FALSE)
        /\ UNCHANGED <<counterVars, ballVars, mainVars>>

\* Paddle.update(dt) with no screen: "assert screen is not None" raises
\* before the controller is read or anything is written.
PaddleUpdateWithoutScreen(axis, dt) ==
    /\ last' = Call("Paddle.update", dt, axis, default_velocity, 0, NoRect, TRUE)
    /\ UNCHANGED <<counterVars, paddleVars, ballVars, mainVars>>

(***************************************************************************)
(* Ball (Ball.py)                                                          *)
(***************************************************************************)
INITIAL_BALL_SPEED_PPM == 250

MINIMUM_BALL_Y_VELOCITY_PPM == INITIAL_BALL_SPEED_PPM

MAX_SERVE_ANGLE_DEGREES == 60

MIN_SERVE_ANGLE_DEGREES == 5

\* _PADDLE_TO_BALL_HORIZONTAL_VELOCITY_TRANSFER_RATIO = 0.10, in hundredths.
TRANSFER_RATIO_PERCENT == 10

\* _SPEED_INCREASE_RATIO_AFTER_OBJECT_HIT = 1.01, in hundredths.
SPEED_INCREASE_PERCENT == 101

\* 10000 * cos and 10000 * sin of 0..60 degrees.
Cos10k ==
    << 10000,
        9998,  9994,  9986,  9976,  9962,  9945,  9925,  9903,  9877,  9848,
        9816,  9781,  9744,  9703,  9659,  9613,  9563,  9511,  9455,  9397,
        9336,  9272,  9205,  9135,  9063,  8988,  8910,  8829,  8746,  8660,
        8572,  8480,  8387,  8290,  8192,  8090,  7986,  7880,  7771,  7660,
        7547,  7431,  7314,  7193,  7071,  6947,  6820,  6691,  6561,  6428,
        6293,  6157,  6018,  5878,  5736,  5592,  5446,  5299,  5150,  5000 >>

Sin10k ==
    <<     0,
         175,   349,   523,   698,   872,  1045,  1219,  1392,  1564,  1736,
        1908,  2079,  2250,  2419,  2588,  2756,  2924,  3090,  3256,  3420,
        3584,  3746,  3907,  4067,  4226,  4384,  4540,  4695,  4848,  5000,
        5150,  5299,  5446,  5592,  5736,  5878,  6018,  6157,  6293,  6428,
        6561,  6691,  6820,  6947,  7071,  7193,  7314,  7431,  7547,  7660,
        7771,  7880,  7986,  8090,  8192,  8290,  8387,  8480,  8572,  8660 >>

Cos(deg) == Cos10k[Abs(deg) + 1]

Sin(deg) == IF deg < 0 THEN -Sin10k[-deg + 1] ELSE Sin10k[deg + 1]

\* Vector2.rotate_ip(deg): (x, y) becomes (x cos - y sin, x sin + y cos).
Rotate(v, deg) ==
    Vec(RoundDiv(v.x * Cos(deg) - v.y * Sin(deg), 10000),
        RoundDiv(v.x * Sin(deg) + v.y * Cos(deg), 10000))

\* random.randrange(-_MAX_SERVE_ANGLE_DEGREES, _MAX_SERVE_ANGLE_DEGREES), one
\* angle in every AngleStep and the two ends of the range.
ServeAngleDraws ==
    {a \in (-MAX_SERVE_ANGLE_DEGREES)..(MAX_SERVE_ANGLE_DEGREES - 1) :
        \/ a % AngleStep = 0
        \/ a \in {-MAX_SERVE_ANGLE_DEGREES, -1, 1, MAX_SERVE_ANGLE_DEGREES - 1}}

\* The drawn angle used as it is.
UnclampedServeAngle(deg) == deg

\* if abs(serve_angle_degrees) < 5:
\*     serve_angle_degrees = math.copysign(5, serve_angle_degrees)
ClampServeAngle(deg) ==
    IF Abs(deg) < MIN_SERVE_ANGLE_DEGREES
    THEN CopySign1(deg) * MIN_SERVE_ANGLE_DEGREES
    ELSE deg

\* The velocity of a serve: (0, _INITIAL_BALL_SPEED_PPM) rotated by the angle.
ServeVelocity(deg) == Rotate(Vec(0, INITIAL_BALL_SPEED_PPM), ClampServeAngle(deg))

BallRectAt(p) == Rect(p.x, p.y, BallW, BallH)

BallRect == BallRectAt(ball)

\* self.topleft = (self._starting_x, self._starting_y)
BallStart == _starting

\* Rect.move_ip(dx, dy) with float arguments: each offset loses its fraction.
MoveIp(p, v, dt) == Vec(p.x + TruncDiv(v.x * dt, PPM), p.y + TruncDiv(v.y * dt, PPM))

\* The miss check of Ball.update, keeping the velocity of the lost ball.
MissResetKeepsVelocity(p, v, served) ==
    IF Top(BallRectAt(p)) > Bottom(screen_rect)
    THEN [pos |-> BallStart, vel |-> v, served |-> FALSE]
    ELSE [pos |-> p, vel |-> v, served |-> served]

\* The miss check taken as soon as the ball's bottom edge leaves the screen.
MissResetAtBottomEdge(p, v, served) ==
    IF Bottom(BallRectAt(p)) > Bottom(screen_rect)
    THEN [pos |-> BallStart, vel |-> Zero2, served |-> FALSE]
    ELSE [pos |-> p, vel |-> v, served |-> served]

\* if self.top > screen_rect.bottom: back to the start, at rest, unserved.
MissReset(p, v, served) ==
    IF Top(BallRectAt(p)) > Bottom(screen_rect)
    THEN [pos |-> BallStart, vel |-> Zero2, served |-> FALSE]
    ELSE [pos |-> p, vel |-> v, served |-> served]

\* Bounces that negate the component, whichever way it points.
WallBounceNegating(p, v) ==
    LET r  == BallRectAt(p)
        vx == IF Left(r) < Left(screen_rect) \/ Right(r) > Right(screen_rect)
              THEN -v.x ELSE v.x
        vy == IF Top(r) < Top(screen_rect) THEN -v.y ELSE v.y
    IN  Vec(vx, vy)

\* Bounces that speed the ball up as a hit of an object does.
WallBounceSpeedingUp(p, v) ==
    LET r  == BallRectAt(p)
        up(c) == RoundDiv(c * SPEED_INCREASE_PERCENT, 100)
        vx == IF Left(r) < Left(screen_rect) THEN up(Abs(v.x))
              ELSE IF Right(r) > Right(screen_rect) THEN -up(Abs(v.x))
              ELSE v.x
        vy == IF Top(r) < Top(screen_rect) THEN up(Abs(v.y)) ELSE v.y
    IN  Vec(vx, vy)

\* The bounces off the sides and the top of the screen.
WallBounce(p, v) ==
    LET r  == BallRectAt(p)
        vx == IF Left(r) < Left(screen_rect) THEN Abs(v.x)
              ELSE IF Right(r) > Right(screen_rect) THEN -Abs(v.x)
              ELSE v.x
        vy == IF Top(r) < Top(screen_rect) THEN Abs(v.y) ELSE v.y
    IN  Vec(vx, vy)

\* Ball.update from the move on: move, miss check, wall bounces.
BallFlight(p, v, dt) ==
    LET moved == MoveIp(p, v, dt)
        m     == MissReset(moved, v, TRUE)
    IN  [pos |-> m.pos, vel |-> WallBounce(m.pos, m.vel), served |-> m.served,
         moved |-> BallRectAt(moved)]

\* Ball.update(dt, screen): serve is ControllerInput.serve(), read only while
\* the ball is unserved; deg is the angle the serve draws.
BallUpdate(dt, serve) ==
    \/ /\ ~has_been_served
       /\ ~serve
       /\ last' = Call("Ball.update", dt, 0, Zero2, 0, NoRect, FALSE)
       /\ UNCHANGED <<counterVars, paddleVars, ballVars, mainVars>>
    \/ /\ ~has_been_served
       /\ serve
       /\ \E deg \in ServeAngleDraws :
            LET f == BallFlight(ball, ServeVelocity(deg), dt)
            IN  /\ ball' = f.pos
                /\ velocity' = f.vel
                /\ has_been_served' = f.served
                /\ last' = Call("Ball.update", dt, deg, ServeVelocity(deg), 1, f.moved, FALSE)
       /\ UNCHANGED <<counterVars, paddleVars, hits, _starting, mainVars>>
    \/ /\ has_been_served
       /\ LET f == BallFlight(ball, velocity, dt)
          IN  /\ ball' = f.pos
              /\ velocity' = f.vel
              /\ has_been_served' = f.served
              /\ last' = Call("Ball.update", dt, 0, Zero2, IF serve THEN 1 ELSE 0,
                              f.moved, FALSE)
       /\ UNCHANGED <<counterVars, paddleVars, hits, _starting, mainVars>>

\* An update that serves and moves the ball before it fails.
BallUpdateMovesThenFails(dt, serve) ==
    /\ has_been_served \/ serve
    /\ \E deg \in ServeAngleDraws :
         LET v == IF has_been_served THEN velocity ELSE ServeVelocity(deg)
         IN  /\ velocity' = v
             /\ ball' = MoveIp(ball, v, dt)
    /\ has_been_served' = TRUE
    /\ last' = Call("Ball.update", dt, 0, Zero2, IF serve THEN 1 ELSE 0, NoRect, TRUE)
    /\ UNCHANGED <<counterVars, paddleVars, hits, _starting, mainVars>>

\* Ball.update(dt) with no screen: "assert screen is not None" raises before
\* the serve button is read or anything is written.
BallUpdateWithoutScreen(dt, serve) ==
    /\ last' = Call("Ball.update", dt, 0, Zero2, IF serve THEN 1 ELSE 0, NoRect, TRUE)
    /\ UNCHANGED <<counterVars, paddleVars, ballVars, mainVars>>

\* The grid of bricks of main.py: brick_cols columns, side_gap at each side.
BrickCols == ScreenW \div (BrickW + BrickGap)

SideGap == (ScreenW - ((BrickW + BrickGap) * BrickCols - BrickGap)) \div 2

InitialBrickLocations ==
    {Vec(SideGap + col * (BrickW + BrickGap), row * (BrickH + BrickGap)) :
        col \in 0..(BrickCols - 1), row \in 0..(BrickRows - 1)}

BrickLocationRect(loc) == Rect(loc.x, loc.y, BrickW, BrickH)

\* The obstacles handed to Ball.collided_with: the paddle, wherever on the
\* screen Paddle.update can have put it and with any velocity it can have
\* given it, and the bricks, which do not move, in the grid of main.py
\* BrickY further down.
PaddleObstacles ==
    {[rect |-> Rect(px, PaddleY, PaddleW, PaddleH), vel |-> Vec(PaddleVelocityX(a), 0)] :
        px \in {x \in 0..(ScreenW - PaddleW) : x % PaddleStep = 0},
        a \in {-AxisSteps, 0, AxisSteps}}

BrickObstacles ==
    {[rect |-> Rect(loc.x, loc.y + BrickY, BrickW, BrickH), vel |-> Zero2] :
        loc \in InitialBrickLocations}

Obstacles == PaddleObstacles \cup BrickObstacles

\* A reflection that negates the component, whichever way it points.
NegatingReflectionFactor(self, v, other) ==
    Vec(IF \/ Left(self) <= Left(other)
           \/ Contains(other, self)
           \/ Right(self) >= Right(other)
        THEN -1 ELSE 1,
        IF \/ Top(self) <= Top(other)
           \/ Contains(other, self)
           \/ Bottom(self) >= Bottom(other)
        THEN -1 ELSE 1)

\* The axes chosen with no thought for a ball inside the obstacle.
ReflectedAxesByEdgesOnly(self, other) ==
    [x |-> Left(self) <= Left(other) \/ Right(self) >= Right(other),
     y |-> Top(self) <= Top(other) \/ Bottom(self) >= Bottom(other)]

\* The two tests of Ball.collided_with that choose the axes to reflect:
\* y when the ball reaches the other element's top or bottom, x when it
\* reaches its left or right, and both when the element contains the ball.
ReflectedAxes(self, other) ==
    [x |-> \/ Left(self) <= Left(other)
           \/ Contains(other, self)
           \/ Right(self) >= Right(other),
     y |-> \/ Top(self) <= Top(other)
           \/ Contains(other, self)
           \/ Bottom(self) >= Bottom(other)]

\* reflection_factor of Ball.collided_with: 1 on an axis that is not
\* reflected, -copysign(1, velocity) on one that is.
ReflectionFactor(self, v, other) ==
    Vec(IF ReflectedAxes(self, other).x THEN -CopySign1(v.x) ELSE 1,
        IF ReflectedAxes(self, other).y THEN -CopySign1(v.y) ELSE 1)

\* The y velocity set to the minimum at every collision, its sign kept.
AlwaysMinimumYVelocity(vy) ==
    IF vy < 0 THEN -MINIMUM_BALL_Y_VELOCITY_PPM ELSE MINIMUM_BALL_Y_VELOCITY_PPM

\* The last step of Ball.collided_with sending a y velocity of zero upward.
MinimumYVelocityZeroGoesUp(vy) ==
    IF -MINIMUM_BALL_Y_VELOCITY_PPM < vy /\ vy < MINIMUM_BALL_Y_VELOCITY_PPM
    THEN IF vy <= 0 THEN -MINIMUM_BALL_Y_VELOCITY_PPM ELSE MINIMUM_BALL_Y_VELOCITY_PPM
    ELSE vy

\* if -_MINIMUM < self.velocity.y < _MINIMUM:
\*     self.velocity.y = -_MINIMUM if self.velocity.y < 0 else _MINIMUM
EnforceMinimumYVelocity(vy) ==
    IF -MINIMUM_BALL_Y_VELOCITY_PPM < vy /\ vy < MINIMUM_BALL_Y_VELOCITY_PPM
    THEN IF vy < 0 THEN -MINIMUM_BALL_Y_VELOCITY_PPM ELSE MINIMUM_BALL_Y_VELOCITY_PPM
    ELSE vy

\* Ball.collided_with(other_element) as a function of the ball's rectangle
\* and velocity: the new position and velocity, and whether
\* Vector2.scale_to_length raised on a vector of length zero.
Collision(p, v, other) ==
    LET self == BallRectAt(p)
        rf   == ReflectionFactor(self, v, other.rect)
        \* self.velocity = self.velocity.elementwise() * reflection_factor
        v1   == Vec(v.x * rf.x, v.y * rf.y)
        \* self.velocity.x += ratio * other_element.velocity.x
        v2   == Vec(v1.x + RoundDiv(TRANSFER_RATIO_PERCENT * other.vel.x, 100), v1.y)
        \* self.velocity.scale_to_length(length * ratio)
        v3   == Vec(RoundDiv(v2.x * SPEED_INCREASE_PERCENT, 100),
                    RoundDiv(v2.y * SPEED_INCREASE_PERCENT, 100))
        y1   == IF rf.y = -1 /\ v3.y <= 0 THEN Top(other.rect) - 1 - BallH
                ELSE IF rf.y = -1 /\ v3.y > 0 THEN Bottom(other.rect) + 1
                ELSE p.y
        x1   == IF rf.x = -1 /\ v3.x <= 0 THEN Left(other.rect) - 1 - BallW
                ELSE IF rf.x = -1 /\ v3.x > 0 THEN Right(other.rect) + 1
                ELSE p.x
    IN  IF v2 = Zero2
        THEN [pos |-> p, vel |-> v2, raised |-> TRUE, rf |-> rf]
        ELSE [pos |-> Vec(x1, y1), vel |-> Vec(v3.x, EnforceMinimumYVelocity(v3.y)),
              raised |-> FALSE, rf |-> rf]

\* Ball.collided_with(other_element), called for an element the ball's
\* rectangle overlaps.  The record keeps, in base, whether the element
\* contained the ball.
BallCollidedWith(other) ==
    /\ hits < MaxHits
    /\ CollideRect(BallRect, other.rect)
    /\ LET c == Collision(ball, velocity, other)
       IN  /\ ball' = c.pos
           /\ velocity' = c.vel
           /\ last' = Call("Ball.collided_with", 0,
                           IF Contains(other.rect, BallRect) THEN 1 ELSE 0,
                           other.vel, 0, other.rect, c.raised)
    /\ hits' = hits + 1
    /\ UNCHANGED <<counterVars, paddleVars, has_been_served, _starting, mainVars>>

\* Ball.collided_with(other_element) called a second time for the element of
\* the call before, a collision detected twice: the method makes no test of
\* its own that the rectangles still overlap.  The record keeps, in n,
\* whether they did.
BallCollidedWithAgain(other) ==
    /\ hits < MaxHits
    /\ last.op = "Ball.collided_with"
    /\ other.rect = last.rect
    /\ other.vel = last.vel
    /\ LET c == Collision(ball, velocity, other)
       IN  /\ ball' = c.pos
           /\ velocity' = c.vel
           /\ last' = Call("Ball.collided_with",
                           IF CollideRect(BallRect, other.rect) THEN 1 ELSE 0,
                           IF Contains(other.rect, BallRect) THEN 1 ELSE 0,
                           other.vel, 1, other.rect, c.raised)
    /\ hits' = hits + 1
    /\ UNCHANGED <<counterVars, paddleVars, has_been_served, _starting, mainVars>>

(***************************************************************************)
(* The frame loop of main.py                                               *)
(***************************************************************************)
\* bat_speed_ppf / mpf = 10 / (1000 / 55) pixels per millisecond.
BAT_SPEED_PPM == 550

\* ball_speed_ppf / mpf = 3.0 / (1000 / 55) pixels per millisecond.
INITIAL_BALL_SPEED_MAIN_PPM == 165

\* current_ball_speed_ppm * 1.01 after the bat hit the ball, in hundredths.
BAT_HIT_SPEED_UP_PERCENT == 101

\* bat_rect.y = screen.get_height() - BatOffset
BatY == ScreenH - BatOffset

BatRect(x) == Rect(x, BatY, PaddleW, PaddleH)

\* Rect.centery
CenterY(r) == r.y + (r.h \div 2)

\* ball_rect.center = screen.get_rect().center
BallStartMain == Vec((ScreenW \div 2) - (BallW \div 2), (ScreenH \div 2) - (BallH \div 2))

\* random.uniform(-1.0, 1.0), here a multiple of 1/UniformSteps.
UniformDraws == (-UniformSteps)..UniformSteps

\* The bat after the LEFT and RIGHT keys (or the joystick) are processed.
BatAfterKeys(x, left, right, dt) ==
    LET desired_left == TruncDiv(x * PPM - BAT_SPEED_PPM * dt, PPM)
        x1 == IF left THEN (IF desired_left > 0 THEN desired_left ELSE 0) ELSE x
        desired_right == TruncDiv((x1 + PaddleW) * PPM + BAT_SPEED_PPM * dt, PPM)
    IN  IF right
        THEN (IF desired_right < ScreenW THEN desired_right ELSE ScreenW) - PaddleW
        ELSE x1

\* The ball against the screen and the bat: the if/elif chain of the loop.
\* b is the ball's rectangle after its move, v its speed, bat the bat's
\* rectangle.  The result holds the ball's position, its speed, whether it
\* is still served and whether the bat hit it.
ScreenAndBat(b, v, bat) ==
    IF Left(b) <= 0
    THEN [pos |-> Vec(0, b.y), v |-> Vec(-v.x, v.y), served |-> TRUE, hit |-> FALSE]
    ELSE IF Top(b) <= 0
    THEN [pos |-> Vec(b.x, 0), v |-> Vec(v.x, -v.y), served |-> TRUE, hit |-> FALSE]
    ELSE IF Right(b) >= ScreenW
    THEN [pos |-> Vec(ScreenW - b.w, b.y), v |-> Vec(-v.x, v.y), served |-> TRUE,
          hit |-> FALSE]
    ELSE IF b.y > ScreenH
    THEN [pos |-> BallStartMain, v |-> v, served |-> FALSE, hit |-> FALSE]
    ELSE IF Bottom(b) >= Top(bat) /\ Top(b) <= Bottom(bat)
    THEN LET r ==
               IF Left(b) >= Left(bat) /\ Right(b) <= Right(bat)
               THEN [v |-> Vec(v.x, -v.y), hit |-> TRUE]
               ELSE IF Left(b) < Left(bat) /\ Left(bat) <= Right(b)
               THEN IF Top(b) <= CenterY(bat)
                    THEN [v |-> Vec(-Abs(v.x), -v.y), hit |-> TRUE]
                    ELSE IF Top(b) <= Bottom(bat)
                    THEN [v |-> Vec(-Abs(v.x), v.y), hit |-> TRUE]
                    ELSE [v |-> v, hit |-> FALSE]
               ELSE IF Left(b) <= Right(bat) /\ Right(bat) < Right(b)
               THEN IF Top(b) <= CenterY(bat)
                    THEN [v |-> Vec(Abs(v.x), -v.y), hit |-> TRUE]
                    ELSE IF Top(b) <= Bottom(bat)
                    THEN [v |-> Vec(Abs(v.x), v.y), hit |-> TRUE]
                    ELSE [v |-> v, hit |-> FALSE]
               ELSE [v |-> v, hit |-> FALSE]
         IN  [pos |-> Vec(b.x, b.y),
              v |-> IF r.hit
                    THEN Vec(RoundDiv(r.v.x * BAT_HIT_SPEED_UP_PERCENT, 100),
                             RoundDiv(r.v.y * BAT_HIT_SPEED_UP_PERCENT, 100))
                    ELSE r.v,
              served |-> TRUE, hit |-> r.hit]
    ELSE [pos |-> Vec(b.x, b.y), v |-> v, served |-> TRUE, hit |-> FALSE]

\* A removal that takes only the bricks that hold the whole ball.
DeletedBricksHoldingBall(b, locations) ==
    {loc \in locations : Contains(BrickLocationRect(loc), b)}

\* deleted_bricks_locations: the bricks the ball's rectangle overlaps.
DeletedBricks(b, locations) ==
    {loc \in locations : CollideRect(b, BrickLocationRect(loc))}

\* The speed after the bounces off the deleted bricks: each brick negates x
\* when the ball reaches past its left or right, and y when the ball reaches
\* past its top or bottom, so an even number of negations cancels.
SpeedAfterBricks(b, v, deleted) ==
    LET flipsX == Cardinality({loc \in deleted :
                     \/ Left(b) <= Left(BrickLocationRect(loc))
                     \/ Right(b) >= Right(BrickLocationRect(loc))})
        flipsY == Cardinality({loc \in deleted :
                     \/ Top(b) <= Top(BrickLocationRect(loc))
                     \/ Bottom(b) >= Bottom(BrickLocationRect(loc))})
    IN  Vec(IF flipsX % 2 = 1 THEN -v.x ELSE v.x,
            IF flipsY % 2 = 1 THEN -v.y ELSE v.y)

\* One pass of the loop body, "while not game_over": the events, the keys,
\* the ball, the bricks.  dt is clock.tick(fps); quit says a QUIT event is in
\* the queue; left, right and space are the keys (or the joystick) held;
\* u is the random.uniform draw of a serve.
MainFrame(dt, quit, left, right, space, u) ==
    /\ ~game_over
    /\ (space /\ ~ball_served) \/ u = 0
    /\ game_over' = quit
    /\ bat_rect' = BatAfterKeys(bat_rect, left, right, dt)
    /\ IF ball_served \/ space
       THEN \E v1 \in {IF space /\ ~ball_served
                       THEN Vec(RoundDiv(INITIAL_BALL_SPEED_MAIN_PPM * u, UniformSteps),
                                INITIAL_BALL_SPEED_MAIN_PPM)
                       ELSE current_ball_speed_ppm} :
            \E moved \in {Rect(TruncDiv(ball_rect.x * PPM + v1.x * dt, PPM),
                               TruncDiv(ball_rect.y * PPM + v1.y * dt, PPM),
                               BallW, BallH)} :
            \E sb \in {ScreenAndBat(moved, v1, BatRect(bat_rect'))} :
            \E deleted \in {DeletedBricks(BallRectAt(sb.pos), brick_locations)} :
               /\ bat_hits + (IF sb.hit THEN 1 ELSE 0) <= MaxHits
               /\ bat_hits' = bat_hits + (IF sb.hit THEN 1 ELSE 0)
               /\ ball_rect' = sb.pos
               /\ ball_served' = sb.served
               /\ current_ball_speed_ppm' = SpeedAfterBricks(BallRectAt(sb.pos), sb.v, deleted)
               /\ brick_locations' = brick_locations \ deleted
       ELSE UNCHANGED <<bat_hits, ball_rect, ball_served, current_ball_speed_ppm,
                        brick_locations>>
    /\ last' = Call("main", dt, u, Zero2, 0, NoRect, FALSE)
    /\ UNCHANGED <<counterVars, paddleVars, ballVars>>

(***************************************************************************)
(* Specifications                                                          *)
(***************************************************************************)
InitCounterVars ==
    /\ num_tokens = STARTING_NUM_TOKENS
    /\ _score = 0
    /\ was_hit = [b \in BrickIds |-> FALSE]

\* Paddle(x, y) with the default velocity of GameElement.__init__.
InitPaddleVars ==
    /\ paddle = Vec(0, PaddleY)
    /\ default_velocity = Zero2

\* Ball(x, y, paddle): at the starting position, at rest, not served.
InitBallVars ==
    /\ _starting = Vec(BallStartX, BallStartY)
    /\ ball = _starting
    /\ velocity = Zero2
    /\ has_been_served = FALSE
    /\ hits = 0

\* main.py before the loop: the bat at the left, the ball at the centre of
\* the screen and not served, every brick in place.
InitMainVars ==
    /\ bat_rect = 0
    /\ ball_rect = BallStartMain
    /\ ball_served = FALSE
    /\ current_ball_speed_ppm = Vec(INITIAL_BALL_SPEED_MAIN_PPM, INITIAL_BALL_SPEED_MAIN_PPM)
    /\ brick_locations = InitialBrickLocations
    /\ game_over = FALSE
    /\ bat_hits = 0

Init ==
    /\ InitCounterVars
    /\ InitPaddleVars
    /\ InitBallVars
    /\ InitMainVars
    /\ last = NoCall

\* The loop of main.py, frame after frame.
NextMain ==
    \E dt \in MainFrameTimes, quit \in BOOLEAN, left \in BOOLEAN, right \in BOOLEAN,
       space \in BOOLEAN, u \in UniformDraws :
        MainFrame(dt, quit, left, right, space, u)

SpecMain == Init /\ [][NextMain]_vars

\* The ball: its updates, frame after frame, and its collisions.
Next ==
    \/ \E dt \in FrameTimes, serve \in BOOLEAN : BallUpdate(dt, serve)
    \/ \E other \in Obstacles : BallCollidedWith(other)

Spec == Init /\ [][Next]_vars

\* The token counter on its own.
NextTokens ==
    \/ \E n \in 0..MaxTokenArg : TokensAdd(n)
    \/ \E n \in 0..MaxTokenArg : TokensLose(n)

SpecTokens == Init /\ [][NextTokens]_vars

\* The score and the bricks that raise it.
NextScore ==
    \/ \E base \in BaseValues, v \in Velocities : BrickDestroyed(base, v)
    \/ \E v \in Velocities : ScreenCleared(v)
    \/ \E b \in BrickIds, v \in Velocities : BrickCollidedWith(b, v)

SpecScore == Init /\ [][NextScore]_vars

\* The paddle on its own; its constructor takes any position.
InitPaddle ==
    /\ InitCounterVars
    /\ InitBallVars
    /\ InitMainVars
    /\ paddle \in [x : (-MaxStartOffScreen)..(ScreenW + MaxStartOffScreen), y : {PaddleY}]
    /\ default_velocity = Zero2
    /\ last = NoCall

NextPaddle == \E axis \in AxisValues, dt \in 0..MaxDt : PaddleUpdate(axis, dt)

SpecPaddle == InitPaddle /\ [][NextPaddle]_vars

\* The ball constructed where the paddle passes: Ball(x, y, paddle) takes any
\* position, here one whose rectangle reaches into the paddle's row, so that
\* the paddle can collide with the ball while it waits to be served.
InitOnPaddle ==
    /\ InitCounterVars
    /\ InitPaddleVars
    /\ InitMainVars
    /\ _starting = Vec(BallStartX, PaddleY - 1)
    /\ ball = _starting
    /\ velocity = Zero2
    /\ has_been_served = FALSE
    /\ hits = 0
    /\ last = NoCall

SpecOnPaddle == InitOnPaddle /\ [][Next]_vars

\* The ball and the paddle updated frame after frame, with the screen and
\* without it.  The paddle is pushed to a side for a frame of MaxDt or left
\* alone.
NextScreenArgument ==
    \/ \E dt \in FrameTimes, serve \in BOOLEAN : BallUpdate(dt, serve)
    \/ \E dt \in FrameTimes, serve \in BOOLEAN : BallUpdateWithoutScreen(dt, serve)
    \/ \E axis \in {-AxisSteps, 0, AxisSteps} : PaddleUpdate(axis, MaxDt)
    \/ \E axis \in {-AxisSteps, 0, AxisSteps} : PaddleUpdateWithoutScreen(axis, MaxDt)

SpecScreenArgument == Init /\ [][NextScreenArgument]_vars

\* The loop of main.py with the token counter beside it: Tokens.lose is
\* called between frames.
NextTokensAndFrames ==
    \/ \E n \in 1..MaxTokenArg : TokensLose(n)
    \/ NextMain

SpecTokensAndFrames == Init /\ [][NextTokensAndFrames]_vars

\* The ball with its collisions, each of which may be detected twice.
NextDetectedTwice ==
    \/ \E dt \in FrameTimes, serve \in BOOLEAN : BallUpdate(dt, serve)
    \/ \E other \in Obstacles : BallCollidedWith(other)
    \/ \E other \in Obstacles : BallCollidedWithAgain(other)

SpecDetectedTwice == Init /\ [][NextDetectedTwice]_vars

\* A ball in play that meets neither the paddle nor a brick: the game loop
\* calls Ball.update once a frame, every frame, with the time the last frame
\* took, which a fast loop can bring down to ShortDt.
FlightFrameTimes == {ShortDt} \cup FrameTimes

NextFlight == \E dt \in FlightFrameTimes, serve \in BOOLEAN : BallUpdate(dt, serve)

SpecFlight == Init /\ [][NextFlight]_vars /\ WF_vars(NextFlight)

(***************************************************************************)
(* Claims about the counters                                               *)
(***************************************************************************)

\* C6: starting from 3 tokens, after any sequence of Tokens.add(n) and
\* Tokens.lose(n) with n >= 0 the token count is a non-negative integer;
\* lose(n) sets it to max(0, tokens - n) and add(n) sets it to tokens + n.
C6_TokensNeverNegative ==
    /\ num_tokens = 3
    /\ [][ /\ num_tokens' \in Nat
           /\ last'.op = "Tokens.lose" =>
                  num_tokens' = (IF num_tokens > last'.n THEN num_tokens - last'.n ELSE 0)
           /\ last'.op = "Tokens.add" => num_tokens' = num_tokens + last'.n ]_vars

\* C6 witness: a lose() that asked for tokens has left the count at 0.
C6_Witness == last.op = "Tokens.lose" /\ last.n > 1 /\ num_tokens = 0

\* C7: the score starts at 0 and never decreases, and every scoring call,
\* with any base value and any ball velocity, raises it by at least 1.
C7_ScoreGrows ==
    /\ _score = 0
    /\ [][ /\ _score' >= _score
           /\ last'.op \in {"brick_destroyed", "screen_cleared", "Brick.collided_with"} =>
                  _score' >= _score + 1 ]_vars

\* C7 witness: a brick_destroyed call with a negative base value and a ball
\* at rest has been scored.
C7_Witness ==
    /\ last.op = "brick_destroyed"
    /\ last.base < 0
    /\ last.vel = Zero2
    /\ _score >= 1

\* C8 as stated: a brick-destroyed event adds max(1, round(SPEED_FACTOR *
\* |velocity|^2 * base_value)), rounding to the nearest integer, and a
\* screen-cleared event adds the same with base_value = 1000.
C8_AddsRoundedValue ==
    [][ /\ last'.op = "brick_destroyed" =>
               _score' = _score + Max(1, ScaledSpeedRounded(last'.base, last'.vel))
        /\ last'.op = "screen_cleared" =>
               _score' = _score + Max(1, ScaledSpeedRounded(1000, last'.vel)) ]_vars

\* C8 amended: a brick-destroyed event adds max(1, int(SPEED_FACTOR *
\* |velocity|^2 * base_value)), the fraction dropped rather than
\* rounded, and a screen-cleared event adds the same with base_value = 1000.
C8_AddsTruncatedValue ==
    [][ /\ last'.op = "brick_destroyed" =>
               _score' = _score + Max(1, ScaledSpeedTruncated(last'.base, last'.vel))
        /\ last'.op = "screen_cleared" =>
               _score' = _score + Max(1, ScaledSpeedTruncated(1000, last'.vel)) ]_vars

\* C8 witness: a brick_destroyed call whose product is above 1 and has a
\* fraction of a half or more, where rounding and truncating differ.
C8_Witness ==
    /\ last.op = "brick_destroyed"
    /\ ScaledSpeedTruncated(last.base, last.vel) >= 1
    /\ ScaledSpeedRounded(last.base, last.vel) = ScaledSpeedTruncated(last.base, last.vel) + 1
    /\ _score >= ScaledSpeedTruncated(last.base, last.vel)

\* C2: after every paddle update, for any axis value in [-1, 1], any dt >= 0
\* and any starting position, the paddle's left edge is at or right of the
\* screen's left edge and its right edge at or left of the screen's right edge.
C2_PaddleStaysOnScreen ==
    last.op = "Paddle.update" =>
        /\ paddle.x >= 0
        /\ paddle.x + PaddleW <= ScreenW

\* C2 witness: an update at full deflection has left the paddle against the
\* right edge of the screen.
C2_Witness ==
    /\ last.op = "Paddle.update"
    /\ last.base = AxisSteps
    /\ last.n > 0
    /\ paddle.x + PaddleW = ScreenW

\* C9: each brick is destroyed at most once: was_hit goes from false to true
\* on the first collision and never returns to false, and a brick that is
\* already hit adds nothing to the score when it collides again.
C9_BrickScoresOnce ==
    [][ \A b \in BrickIds :
          /\ was_hit[b] => was_hit'[b]
          /\ (last'.op = "Brick.collided_with" /\ last'.obj = b) => was_hit'[b]
          /\ (was_hit[b] /\ last'.op = "Brick.collided_with" /\ last'.obj = b) =>
                 _score' = _score ]_vars

(***************************************************************************)
(* Claims about the ball                                                   *)
(***************************************************************************)

\* C1: in every frame in which the ball is served, from the serve onward and
\* after any sequence of Ball.update and Ball.collided_with calls, the
\* absolute value of its y-velocity is at least the minimum y-velocity (the
\* initial serve speed, 0.25 px/ms), for every serve angle.
C1_MinimumYVelocityWhileServed ==
    has_been_served => Abs(velocity.y) >= MINIMUM_BALL_Y_VELOCITY_PPM

\* C3: when Ball.collided_with resolves a collision with a stationary
\* obstacle, the velocity along each reflected axis points away from the
\* obstacle afterwards: up into an underside leaves downward, down onto a top
\* leaves upward, into a right side leaves rightward, into a left side
\* leaves leftward.
C3_ReflectsAwayFromObstacle ==
    [][ (last'.op = "Ball.collided_with" /\ last'.vel = Zero2 /\ ~last'.raised) =>
          LET self  == BallRect
              other == last'.rect
          IN  /\ (velocity.y < 0 /\ Bottom(self) >= Bottom(other) /\ Top(self) > Top(other))
                     => velocity'.y > 0
              /\ (velocity.y > 0 /\ Top(self) <= Top(other) /\ Bottom(self) < Bottom(other))
                     => velocity'.y < 0
              /\ (velocity.x < 0 /\ Right(self) >= Right(other) /\ Left(self) > Left(other))
                     => velocity'.x > 0
              /\ (velocity.x > 0 /\ Left(self) <= Left(other) /\ Right(self) < Right(other))
                     => velocity'.x < 0 ]_vars

\* C4: in any Ball.update of a served ball whose move puts the ball's top
\* edge strictly below the screen's bottom edge, by the end of that update
\* the ball is back at its starting coordinates, its velocity is exactly
\* (0, 0) and it is unserved.
C4_MissResetsBall ==
    [][ ( /\ has_been_served
          /\ last'.op = "Ball.update"
          /\ ball.y + TruncDiv(velocity.y * last'.n, 1000) > ScreenH ) =>
          ( /\ ball' = Vec(BallStartX, BallStartY)
            /\ velocity' = Vec(0, 0)
            /\ ~has_been_served' ) ]_vars

\* C4 witness: an update of a ball in flight has moved it below the screen
\* and left it unserved at the start.
C4_Witness ==
    /\ last.op = "Ball.update"
    /\ last.vel = Zero2
    /\ Top(last.rect) > ScreenH
    /\ ~has_been_served
    /\ ball = BallStart

\* C5: each time the ball is lost off the bottom of the screen the token
\* count decreases by exactly 1 (or stays at 0), and it changes in no other
\* frame.
C5_LostBallCostsOneToken ==
    [][ last'.op = "Ball.update" =>
          num_tokens' = (IF has_been_served /\ ~has_been_served'
                         THEN Max(0, num_tokens - 1)
                         ELSE num_tokens) ]_vars

\* C10: in the frame in which the field of bricks goes from some bricks to
\* none, one screen-cleared scoring event fires, with the velocity of the
\* ball of that frame: the score grows by what score.screen_cleared adds for
\* that velocity.  In every other frame the score stays as it is.
C10_ScreenClearedScoresOnce ==
    [][ last'.op = "main" =>
          _score' = (IF brick_locations # {} /\ brick_locations' = {}
                     THEN _score + ScoreUpdate(SCREEN_CLEARED_BASE_VALUE,
                                               current_ball_speed_ppm')
                     ELSE _score) ]_vars

\* The last brick of the field has just been removed by a frame of the loop.
C10_FieldCleared ==
    /\ last.op = "main"
    /\ brick_locations = {}
    /\ InitialBrickLocations # {}

(***************************************************************************)
(* Claims about the field of bricks                                        *)
(***************************************************************************)

\* C11: removing the destroyed bricks is idempotent.  After a frame has
\* removed the bricks the ball overlaps, no brick still in the collection
\* overlaps the ball, so a second removal with no new hit removes nothing
\* and leaves the collection as it is; the collection only ever loses
\* bricks, so no removed brick is in it again.
C11_RemovalIsIdempotent ==
    [][ last'.op = "main" =>
          /\ brick_locations' \subseteq brick_locations
          /\ (ball_served \/ ball_served') =>
                 \A loc \in brick_locations' :
                     ~CollideRect(BallRectAt(ball_rect'), BrickLocationRect(loc)) ]_vars

\* C11 witness: a brick has been removed and the ball has since moved off
\* the place where it was, a frame whose removal found nothing to remove.
C11_Witness ==
    /\ last.op = "main"
    /\ ball_served
    /\ \E loc \in InitialBrickLocations \ brick_locations :
           ~CollideRect(BallRectAt(ball_rect), BrickLocationRect(loc))

(***************************************************************************)
(* Claims about the ball at rest and its serve                             *)
(***************************************************************************)

\* C12: in every reachable state in which the ball is unserved its velocity
\* is exactly (0, 0), after any sequence of Ball.update and
\* Ball.collided_with calls, a collision with a moving paddle while the ball
\* waits to be served included.
C12_UnservedBallIsAtRest ==
    ~has_been_served => velocity = Zero2

\* C13: the ball starts unserved; it becomes served only in an update in
\* which it is unserved and the serve input is active; it becomes unserved
\* again only in an update in which its top edge is below the bottom of the
\* screen; a serve input received while the ball is in flight changes neither
\* its velocity nor its served state: the update does what it does without it.
C13_ServedStateMachine ==
    /\ ~has_been_served
    /\ [][ /\ (~has_been_served /\ has_been_served') =>
                  (last'.op = "Ball.update" /\ last'.obj = 1)
           /\ (has_been_served /\ ~has_been_served') =>
                  (last'.op = "Ball.update" /\ Top(last'.rect) > ScreenH)
           /\ (has_been_served /\ last'.op = "Ball.update" /\ last'.obj = 1) =>
                  LET moved == MoveIp(ball, velocity, last'.n)
                      lost  == Top(BallRectAt(moved)) > ScreenH
                  IN  /\ has_been_served' = ~lost
                      /\ velocity' = IF lost THEN Zero2
                                     ELSE WallBounce(moved, velocity) ]_vars

\* C13 witness: an update with the serve input active has left a ball that
\* was already in flight served and moving.
C13_Witness ==
    /\ last.op = "Ball.update"
    /\ last.obj = 1
    /\ last.vel = Zero2
    /\ has_been_served
    /\ velocity # Zero2

\* C14: on every serve the velocity has the magnitude of the initial speed
\* (to the precision of the velocity unit) and is (0, initial speed) turned by
\* an angle whose absolute value is between the minimum threshold and the
\* maximum serve angle inclusive; a drawn angle below the threshold in
\* absolute value is set to plus or minus the threshold, its sign kept, so
\* the x-velocity of the served ball is never zero.
C14_ServeAngleAndSpeed ==
    [][ (~has_been_served /\ last'.op = "Ball.update" /\ last'.obj = 1) =>
          LET deg == last'.base
              v   == last'.vel
              m   == MagnitudeSquared(v)
          IN  /\ (INITIAL_BALL_SPEED_PPM - 1) * (INITIAL_BALL_SPEED_PPM - 1) < m
              /\ m < (INITIAL_BALL_SPEED_PPM + 1) * (INITIAL_BALL_SPEED_PPM + 1)
              /\ \E a \in MIN_SERVE_ANGLE_DEGREES..MAX_SERVE_ANGLE_DEGREES :
                 \E sign \in {-1, 1} :
                    /\ v.x = RoundDiv(-INITIAL_BALL_SPEED_PPM * Sin(sign * a), 10000)
                    /\ v.y = RoundDiv(INITIAL_BALL_SPEED_PPM * Cos(sign * a), 10000)
                    /\ Abs(deg) >= MIN_SERVE_ANGLE_DEGREES => sign * a = deg
                    /\ Abs(deg) < MIN_SERVE_ANGLE_DEGREES =>
                           /\ a = MIN_SERVE_ANGLE_DEGREES
                           /\ deg < 0 => sign = -1
                           /\ deg > 0 => sign = 1
              /\ v.x # 0
              /\ has_been_served' => velocity'.x # 0 ]_vars

\* C14 witness: a serve that drew an angle inside the dead zone has put the
\* ball in flight.
C14_Witness ==
    /\ last.op = "Ball.update"
    /\ last.obj = 1
    /\ last.vel # Zero2
    /\ Abs(last.base) < MIN_SERVE_ANGLE_DEGREES
    /\ has_been_served

\* C15: Ball.update or Paddle.update called without the screen fails at
\* once with an explicit error and leaves the element's position, its
\* velocity and, for the ball, its served flag exactly as they were.
C15_UpdateWithoutScreenChangesNothing ==
    [][ /\ (last'.op = "Ball.update" /\ last'.raised) =>
               /\ ball' = ball
               /\ velocity' = velocity
               /\ has_been_served' = has_been_served
        /\ (last'.op = "Paddle.update" /\ last'.raised) =>
               /\ paddle' = paddle
               /\ default_velocity' = default_velocity ]_vars

\* C15 witness: a ball in flight has been updated without the screen.
C15_Witness ==
    /\ last.op = "Ball.update"
    /\ last.raised
    /\ has_been_served
    /\ velocity # Zero2
    /\ ball # BallStart

(***************************************************************************)
(* Claims about the end of the game                                        *)
(***************************************************************************)

\* C16: when the token count reaches 0 game-over is signalled no later than
\* the frame after the last token is lost: once a frame has run with no
\* token left, the loop has been told to stop.
C16_NoTokensEndsTheGame ==
    (num_tokens = 0 /\ last.op = "main") => game_over

(***************************************************************************)
(* Claims about the ball's bounces                                         *)
(***************************************************************************)

\* C17: at the end of every Ball.update of a served ball, a ball whose left
\* edge is left of the screen's left edge has x-velocity >= 0, one whose
\* right edge is right of the screen's right edge has x-velocity <= 0, and
\* one whose top edge is above the screen's top has y-velocity >= 0; the x
\* check and the top check are made independently in the same frame.
C17_WallsTurnTheBallInward ==
    (last.op = "Ball.update" /\ has_been_served) =>
        /\ Left(BallRect) < Left(screen_rect) => velocity.x >= 0
        /\ Right(BallRect) > Right(screen_rect) => velocity.x <= 0
        /\ Top(BallRect) < Top(screen_rect) => velocity.y >= 0

\* C17 witness: an update has carried the ball into a corner, past the top
\* of the screen and past one of its sides, and turned it on both axes.
C17_Witness ==
    /\ last.op = "Ball.update"
    /\ has_been_served
    /\ Top(BallRect) < Top(screen_rect)
    /\ velocity.y > 0
    /\ \/ Left(BallRect) < Left(screen_rect) /\ velocity.x > 0
       \/ Right(BallRect) > Right(screen_rect) /\ velocity.x < 0

\* C18: a bounce off an edge of the screen changes only the sign of a
\* velocity component: across any Ball.update of a served ball that does not
\* lose the ball, |velocity.x| and |velocity.y| are after the update what
\* they were before it.
C18_WallBounceKeepsSpeed ==
    [][ (has_been_served /\ last'.op = "Ball.update" /\ has_been_served') =>
          /\ Abs(velocity'.x) = Abs(velocity.x)
          /\ Abs(velocity'.y) = Abs(velocity.y) ]_vars

\* C18 witness: an update of a ball in flight has left it past the right
\* edge of the screen, moving left.
C18_Witness ==
    /\ last.op = "Ball.update"
    /\ last.vel = Zero2
    /\ has_been_served
    /\ Right(BallRect) > Right(screen_rect)
    /\ velocity.x < 0

\* C19: for a collision with an obstacle at rest in which the correction to
\* the minimum y-velocity does not apply, the speed after Ball.collided_with
\* is 1.01 times the speed before it and the ratio |vx| : |vy| is unchanged:
\* each component has 1.01 times the magnitude it had, to the precision of
\* the velocity unit.
C19_HitScalesSpeed ==
    [][ ( /\ last'.op = "Ball.collided_with"
          /\ last'.vel = Zero2
          /\ ~last'.raised
          /\ RoundDiv(Abs(velocity.y) * SPEED_INCREASE_PERCENT, 100)
                 >= MINIMUM_BALL_Y_VELOCITY_PPM ) =>
          /\ Abs(velocity'.x) = RoundDiv(Abs(velocity.x) * SPEED_INCREASE_PERCENT, 100)
          /\ Abs(velocity'.y) = RoundDiv(Abs(velocity.y) * SPEED_INCREASE_PERCENT, 100) ]_vars

\* C19 witness: a ball flying aslant at more than the minimum y-velocity has
\* hit an obstacle at rest for the second time.
C19_Witness ==
    /\ last.op = "Ball.collided_with"
    /\ last.vel = Zero2
    /\ ~last.raised
    /\ hits >= 2
    /\ velocity.x # 0
    /\ Abs(velocity.y) > RoundDiv(MINIMUM_BALL_Y_VELOCITY_PPM * SPEED_INCREASE_PERCENT, 100)

\* C20: every time the ball hits an object, the paddle at any velocity or a
\* brick, its speed after the hit is strictly greater than its speed before.
C20_EveryHitSpeedsUp ==
    [][ last'.op = "Ball.collided_with" =>
          MagnitudeSquared(velocity') > MagnitudeSquared(velocity) ]_vars

(***************************************************************************)
(* Claims about the steps of Ball.collided_with                            *)
(***************************************************************************)

\* C21 as stated: at the end of Ball.collided_with a y-velocity of magnitude
\* below the minimum is set to the minimum magnitude with its current sign,
\* one of exactly zero is set to the negative (upward) minimum, and one at or
\* above the minimum magnitude is left as it is.
C21_ZeroYVelocityGoesUp ==
    [][ (last'.op = "Ball.collided_with" /\ ~last'.raised) =>
          LET rf == ReflectionFactor(BallRect, velocity, last'.rect)
              vy == RoundDiv(velocity.y * rf.y * SPEED_INCREASE_PERCENT, 100)
          IN  velocity'.y =
                  IF Abs(vy) >= MINIMUM_BALL_Y_VELOCITY_PPM THEN vy
                  ELSE IF vy > 0 THEN MINIMUM_BALL_Y_VELOCITY_PPM
                  ELSE -MINIMUM_BALL_Y_VELOCITY_PPM ]_vars

\* C21 amended: at the end of Ball.collided_with a y-velocity of magnitude
\* below the minimum is set to the minimum magnitude with its current sign,
\* one of exactly zero is set to the positive (downward) minimum, and one at
\* or above the minimum magnitude is left as it is.
C21_ZeroYVelocityGoesDown ==
    [][ (last'.op = "Ball.collided_with" /\ ~last'.raised) =>
          LET rf == ReflectionFactor(BallRect, velocity, last'.rect)
              vy == RoundDiv(velocity.y * rf.y * SPEED_INCREASE_PERCENT, 100)
          IN  velocity'.y =
                  IF Abs(vy) >= MINIMUM_BALL_Y_VELOCITY_PPM THEN vy
                  ELSE IF vy < 0 THEN -MINIMUM_BALL_Y_VELOCITY_PPM
                  ELSE MINIMUM_BALL_Y_VELOCITY_PPM ]_vars

\* C21 witness: a collision has found the ball with no y-velocity at all, an
\* unserved ball pushed by the moving paddle, and has sent it downward.
C21_Witness ==
    /\ last.op = "Ball.collided_with"
    /\ ~last.raised
    /\ ~has_been_served
    /\ hits = 1
    /\ velocity.y = MINIMUM_BALL_Y_VELOCITY_PPM

\* C22: after Ball.collided_with has resolved a collision with an obstacle
\* the ball overlapped, the ball's rectangle no longer overlaps that
\* obstacle: it has been put clear of the obstacle's edge.
C22_BallLeavesTheObstacle ==
    [][ (last'.op = "Ball.collided_with" /\ ~last'.raised) =>
          ~CollideRect(BallRectAt(ball'), last'.rect) ]_vars

\* C23: resolving the same collision twice is idempotent in direction: when
\* Ball.collided_with is applied a second time against the same obstacle at
\* rest straight after the first, the signs of the x- and y-velocity after
\* the second call are those after the first, so that a ball already moving
\* away is not turned back into the obstacle.
C23_SecondCallKeepsDirection ==
    [][ ( /\ last.op = "Ball.collided_with"
          /\ last'.op = "Ball.collided_with"
          /\ last'.rect = last.rect
          /\ last.vel = Zero2
          /\ last'.vel = Zero2
          /\ ~last.raised
          /\ ~last'.raised ) =>
          /\ (velocity'.x < 0) = (velocity.x < 0)
          /\ (velocity'.x > 0) = (velocity.x > 0)
          /\ (velocity'.y < 0) = (velocity.y < 0)
          /\ (velocity'.y > 0) = (velocity.y > 0) ]_vars

\* C23 witness: a second call for the same obstacle at rest has found the
\* ball already put clear of it and flying away upward.
C23_Witness ==
    /\ last.op = "Ball.collided_with"
    /\ last.obj = 1
    /\ last.n = 0
    /\ last.vel = Zero2
    /\ ~last.raised
    /\ velocity.y < 0

\* C24: no operation raises an error when its required arguments are
\* supplied; in particular Ball.collided_with completes normally for every
\* velocity of the ball, a ball whose velocity is exactly (0, 0) colliding
\* with an obstacle at rest included.
C24_CollidedWithNeverRaises ==
    last.op = "Ball.collided_with" => ~last.raised

\* C25: whenever the ball's rectangle overlaps the obstacle's, at a corner,
\* along an edge or wholly inside it, Ball.collided_with chooses at least one
\* axis to reflect, and both when the obstacle contains the ball; a chosen
\* axis leaves the ball with a velocity that is not positive on it unless
\* the paddle's push has turned x.
C25_SomeAxisIsReflected ==
    [][ (last'.op = "Ball.collided_with" /\ CollideRect(BallRect, last'.rect)) =>
          LET axes == ReflectedAxes(BallRect, last'.rect)
          IN  /\ axes.x \/ axes.y
              /\ Contains(last'.rect, BallRect) => (axes.x /\ axes.y)
              /\ (axes.y /\ ~last'.raised) => velocity'.y <= 0
              /\ (axes.x /\ ~last'.raised /\ last'.vel = Zero2) => velocity'.x <= 0 ]_vars

\* C25 witness: a collision has found the ball wholly inside the obstacle.
C25_Witness ==
    /\ last.op = "Ball.collided_with"
    /\ last.base = 1
    /\ ~last.raised

\* C26: Paddle.update changes only the paddle's own x-position and
\* x-velocity: the paddle's y-position and its y-velocity stay as they were,
\* the y-velocity zero, and the vector GameElement.__init__ hands to an
\* element constructed later with the default velocity argument is still
\* (0, 0) after the paddle has moved.
C26_PaddleUpdateTouchesOnlyThePaddle ==
    [][ (last'.op = "Paddle.update" /\ ~last'.raised) =>
          /\ paddle'.y = paddle.y
          /\ last'.vel.y = 0
          /\ default_velocity' = Zero2 ]_vars

\* C26 witness: the paddle has been updated with the controller off centre,
\* so its velocity is not zero.
C26_PaddleHasMoved ==
    /\ last.op = "Paddle.update"
    /\ ~last.raised
    /\ last.vel.x # 0

\* C27: a served ball that touches neither the paddle nor any brick is
\* eventually lost: under repeated Ball.update calls with a positive dt it is
\* never on a horizontal-only path, and it is back in the unserved state
\* after finitely many frames.
C27_ServedBallIsEventuallyLost ==
    /\ [](has_been_served => velocity.y # 0)
    /\ has_been_served ~> ~has_been_served

\* C27 witness: an update of ShortDt milliseconds has left a served ball
\* where it was.
C27_ShortFrameMovesNothing ==
    /\ last.op = "Ball.update"
    /\ last.n = ShortDt
    /\ has_been_served
    /\ last.rect = BallRect

=============================================================================
